---- MODULE Spec2Model ----
(***************************************************************************)
(* Media Shield (src/app.py): the pattern registry INTELLIGENCE, the text  *)
(* forensics engine GeneralAI (extract_from_pdf, extract_from_url,         *)
(* generate_verdict, scan) and the input flow of the "Input" tab.          *)
(*                                                                         *)
(* A text is a sequence of one-character strings.  Offsets are Python's:   *)
(* 0-based, end exclusive, so text[start:end] is SubSeq(text, start + 1,   *)
(* end).                                                                   *)
(***************************************************************************)
EXTENDS Integers, Sequences, FiniteSets, TLC

(***************************************************************************)
(* Characters, as Python's re sees them (str patterns, re.IGNORECASE).     *)
(***************************************************************************)
LowerLetters == {"a", "b", "c", "d", "e", "f", "g", "h", "i", "j", "k", "l", "m"}
    \cup {"n", "o", "p", "q", "r", "s", "t", "u", "v", "w", "x", "y", "z"}

ToLower == ("A" :> "a") @@ ("B" :> "b") @@ ("C" :> "c") @@ ("D" :> "d") @@ ("E" :> "e") @@ ("F" :> "f") @@
    ("G" :> "g") @@ ("H" :> "h") @@ ("I" :> "i") @@ ("J" :> "j") @@ ("K" :> "k") @@ ("L" :> "l")
    @@ ("M" :> "m") @@ ("N" :> "n") @@ ("O" :> "o") @@ ("P" :> "p") @@ ("Q" :> "q") @@ ("R" :>
    "r") @@ ("S" :> "s") @@ ("T" :> "t") @@ ("U" :> "u") @@ ("V" :> "v") @@ ("W" :> "w") @@ ("X"
    :> "x") @@ ("Y" :> "y") @@ ("Z" :> "z")

UpperLetters == DOMAIN ToLower

Digits == {"0", "1", "2", "3", "4", "5", "6", "7", "8", "9"}

\* \w
WordChars == LowerLetters \cup UpperLetters \cup Digits \cup {"_"}

\* \s
Whitespace == {" ", "\t", "\n", "\r", "\f"}

\* re.IGNORECASE compares both sides case-folded
Lower(c) == IF c \in UpperLetters THEN ToLower[c] ELSE c

(***************************************************************************)
(* INTELLIGENCE, in declaration order.  A pattern is its items in order:   *)
(* a literal character, or "\\s+"; wb says the pattern is written          *)
(* (?i)\b...\b.  Eight patterns use alternation, optional characters or    *)
(* character classes and are left out; each needs a word (only, doctors,   *)
(* scientists, experts, studies, leading, top, join, best, selling,        *)
(* everyone, thousands, millions) that no text built from Fragments,       *)
(* ArticleOnly or the error messages contains, so they yield no candidate. *)
(***************************************************************************)
INTELLIGENCE == <<
    [label |-> "ANGER", color |-> "#FF4B4B", category |-> "EMOTION", patterns |-> <<
        [wb |-> FALSE, items |-> <<"s", "c", "a", "n", "d", "a", "l">>],
        [wb |-> FALSE, items |-> <<"e", "v", "i", "s", "c", "e", "r", "a", "t", "e", "d">>],
        [wb |-> FALSE, items |-> <<"m", "i", "s", "o", "g", "y", "n", "i", "s", "t">>],
        [wb |-> FALSE, items |-> <<"r", "a", "c", "i", "s", "t">>],
        [wb |-> FALSE, items |-> <<"c", "e", "n", "s", "o", "r", "e", "d">>],
        [wb |-> FALSE, items |-> <<"b", "a", "n", "n", "e", "d">>],
        [wb |-> FALSE, items |-> <<"c", "o", "v", "e", "r", "-", "u", "p">>],
        [wb |-> FALSE, items |-> <<"o", "u", "t", "r", "a", "g", "e">>],
        [wb |-> FALSE, items |-> <<"s", "h", "a", "m", "e", "f", "u", "l">>],
        [wb |-> FALSE, items |-> <<"h", "y", "p", "o", "c", "r", "i", "s", "y">>],
        [wb |-> FALSE, items |-> <<"l", "i", "e", "s">>],
        [wb |-> FALSE, items |-> <<"a", "t", "t", "a", "c", "k">>],
        [wb |-> FALSE, items |-> <<"d", "e", "s", "t", "r", "o", "y">>],
        [wb |-> FALSE, items |-> <<"v", "i", "c", "t", "i", "m">>],
        [wb |-> FALSE, items |-> <<"f", "u", "r", "i", "o", "u", "s">>] >>],
    [label |-> "FEAR", color |-> "#800080", category |-> "EMOTION", patterns |-> <<
        [wb |-> FALSE, items |-> <<"t", "o", "x", "i", "c">>],
        [wb |-> FALSE, items |-> <<"l", "e", "t", "h", "a", "l">>],
        [wb |-> FALSE, items |-> <<"c", "r", "i", "s", "i", "s">>],
        [wb |-> FALSE, items |-> <<"c", "o", "l", "l", "a", "p", "s", "e">>],
        [wb |-> FALSE, items |-> <<"w", "a", "r", "n", "i", "n", "g">>],
        [wb |-> FALSE, items |-> <<"d", "a", "n", "g", "e", "r">>],
        [wb |-> FALSE, items |-> <<"r", "i", "s", "k">>],
        [wb |-> FALSE, items |-> <<"p", "o", "i", "s", "o", "n">>],
        [wb |-> FALSE, items |-> <<"m", "e", "l", "t", "d", "o", "w", "n">>],
        [wb |-> FALSE, items |-> <<"a", "p", "o", "c", "a", "l", "y", "p", "s", "e">>],
        [wb |-> FALSE, items |-> <<"d", "e", "a", "d", "l", "y">>],
        [wb |-> FALSE, items |-> <<"t", "h", "r", "e", "a", "t">>],
        [wb |-> FALSE, items |-> <<"e", "m", "e", "r", "g", "e", "n", "c", "y">>],
        [wb |-> FALSE, items |-> <<"f", "a", "t", "a", "l">>] >>],
    [label |-> "SCARCITY", color |-> "#0068C9", category |-> "PRESSURE", patterns |-> <<
        [wb |-> TRUE, items |-> <<"a", "c", "t", "\\s+", "n", "o", "w">>],
        [wb |-> TRUE, items |-> <<"w", "h", "i", "l", "e", "\\s+", "s", "u", "p", "p", "l", "i", "e", "s", "\\s+", "l", "a", "s", "t">>],
        [wb |-> TRUE, items |-> <<"o", "f", "f", "e", "r", "\\s+", "e", "x", "p", "i", "r", "e", "s">>],
        [wb |-> TRUE, items |-> <<"t", "i", "m", "e", "\\s+", "i", "s", "\\s+", "r", "u", "n", "n", "i", "n", "g", "\\s+", "o", "u", "t">>],
        [wb |-> TRUE, items |-> <<"l", "a", "s", "t", "\\s+", "c", "h", "a", "n", "c", "e">>],
        [wb |-> TRUE, items |-> <<"t", "o", "d", "a", "y", "\\s+", "o", "n", "l", "y">>],
        [wb |-> TRUE, items |-> <<"d", "e", "a", "d", "l", "i", "n", "e", "\\s+", "a", "p", "p", "r", "o", "a", "c", "h", "i", "n", "g">>],
        [wb |-> TRUE, items |-> <<"h", "u", "r", "r", "y">>] >>],
    [label |-> "AUTHORITY", color |-> "#00C9A7", category |-> "PRESSURE", patterns |-> <<
        [wb |-> TRUE, items |-> <<"s", "e", "c", "r", "e", "t", "\\s+", "f", "o", "r", "m", "u", "l", "a">>],
        [wb |-> TRUE, items |-> <<"s", "c", "i", "e", "n", "t", "i", "f", "i", "c", "a", "l", "l", "y", "\\s+", "p", "r", "o", "v", "e", "n">>] >>],
    [label |-> "SOCIAL_PROOF", color |-> "#29B5E8", category |-> "PRESSURE", patterns |-> <<
 >>],
    [label |-> "US_VS_THEM", color |-> "#FF8C00", category |-> "LOGIC", patterns |-> <<
        [wb |-> FALSE, items |-> <<"t", "h", "o", "s", "e", " ", "p", "e", "o", "p", "l", "e">>],
        [wb |-> FALSE, items |-> <<"t", "h", "e", " ", "r", "a", "d", "i", "c", "a", "l">>],
        [wb |-> FALSE, items |-> <<"u", "n", "l", "i", "k", "e", " ", "u", "s">>],
        [wb |-> FALSE, items |-> <<"t", "h", "e", "y", " ", "w", "a", "n", "t", " ", "t", "o">>],
        [wb |-> FALSE, items |-> <<"t", "h", "e", "y", " ", "h", "a", "t", "e">>],
        [wb |-> FALSE, items |-> <<"t", "h", "e", " ", "e", "n", "e", "m", "y">>],
        [wb |-> FALSE, items |-> <<"a", "n", "t", "i", "-", "A", "m", "e", "r", "i", "c", "a", "n">>],
        [wb |-> FALSE, items |-> <<"f", "o", "r", "e", "i", "g", "n", "e", "r", "s">>],
        [wb |-> FALSE, items |-> <<"o", "u", "t", "s", "i", "d", "e", "r", "s">>],
        [wb |-> FALSE, items |-> <<"d", "e", "s", "t", "r", "o", "y", " ", "o", "u", "r", " ", "v", "a", "l", "u", "e", "s">>],
        [wb |-> FALSE, items |-> <<"t", "h", "r", "e", "a", "t", " ", "t", "o", " ", "o", "u", "r", " ", "w", "a", "y", " ", "o", "f", " ", "l", "i", "f", "e">>] >>],
    [label |-> "SUNK_COST", color |-> "#8D6E63", category |-> "LOGIC", patterns |-> <<
        [wb |-> FALSE, items |-> <<"w", "e", " ", "h", "a", "v", "e", " ", "a", "l", "r", "e", "a", "d", "y", " ", "i", "n", "v", "e", "s", "t", "e", "d">>],
        [wb |-> FALSE, items |-> <<"t", "o", "o", " ", "l", "a", "t", "e", " ", "t", "o", " ", "t", "u", "r", "n", " ", "b", "a", "c", "k">>],
        [wb |-> FALSE, items |-> <<"i", "n", "v", "e", "s", "t", "e", "d", " ", "t", "o", "o", " ", "m", "u", "c", "h">>],
        [wb |-> FALSE, items |-> <<"c", "a", "n", "'", "t", " ", "s", "t", "o", "p", " ", "n", "o", "w">>],
        [wb |-> FALSE, items |-> <<"f", "i", "n", "i", "s", "h", " ", "w", "h", "a", "t", " ", "w", "e", " ", "s", "t", "a", "r", "t", "e", "d">>],
        [wb |-> FALSE, items |-> <<"w", "a", "s", "t", "e", " ", "o", "f", " ", "t", "i", "m", "e", " ", "i", "f", " ", "w", "e", " ", "s", "t", "o", "p">>],
        [wb |-> FALSE, items |-> <<"a", "l", "r", "e", "a", "d", "y", " ", "s", "p", "e", "n", "t">>] >>] >>

(***************************************************************************)
(* Bounds and inputs.                                                      *)
(***************************************************************************)
\* most fragments in a text handed to scan
MaxFragments == 3

\* most fragments in a pasted text or an article, most pages in a PDF
MaxPasted == 1

\* the pieces texts are made of: no match; one EMOTION match; two PRESSURE matches
\* (case, \b and \s+); three LOGIC matches, the last starting where a shorter
\* EMOTION candidate starts; one PRESSURE match around an EMOTION candidate; one
\* LOGIC match whose end an EMOTION candidate overlaps
Fragments == {
    <<"o", "k", " ">>,
    <<"l", "i", "e", "s", " ">>,
    <<"H", "u", "r", "r", "y", ",", " ", "a", "c", "t", " ", " ", "n", "o", "w", "!", " ">>,
    <<"t", "h", "e", "y", " ", "h", "a", "t", "e", " ", "o", "u", "t", "s", "i", "d", "e", "r", "s", ",",
      " ", "d", "e", "s", "t", "r", "o", "y", " ", "o", "u", "r", " ", "v", "a", "l", "u", "e", "s", " ">>,
    <<"w", "h", "i", "l", "e", " ", "s", "u", "p", "p", "l", "i", "e", "s", " ", "l", "a", "s", "t", " ">>,
    <<"a", "l", "r", "e", "a", "d", "y", " ", "s", "p", "e", "n", "t", "o", "x", "i", "c", " ">> }

RECURSIVE TextsOf(_)
TextsOf(n) ==
    IF n = 0 THEN {<< >>}
    ELSE LET shorter == TextsOf(n - 1)
         IN  shorter \cup {t \o f : t \in shorter, f \in Fragments}

Texts == TextsOf(MaxFragments)

\* vader's compound, in units of 0.0001 (vader rounds it to four places)
CompoundValues == {-10000, -5001, 0, 5000, 5001}

(***************************************************************************)
(* re.finditer(pattern, text, re.IGNORECASE)                               *)
(***************************************************************************)
\* \b at offset pos: exactly one of text[pos-1], text[pos] is a word character
IsBoundary(text, pos) ==
    (pos > 0 /\ text[pos] \in WordChars) # (pos < Len(text) /\ text[pos + 1] \in WordChars)

RECURSIVE SpaceRun(_, _)
SpaceRun(text, pos) ==
    IF pos < Len(text) /\ text[pos + 1] \in Whitespace
    THEN 1 + SpaceRun(text, pos + 1)
    ELSE 0

\* the end of a match of items[k..] at offset pos, or -1.  "\\s+" is greedy and is
\* always followed by a literal that is not whitespace, so it never gives back.
RECURSIVE MatchItems(_, _, _, _)
MatchItems(text, items, k, pos) ==
    IF k > Len(items) THEN pos
    ELSE IF items[k] = "\\s+"
    THEN LET n == SpaceRun(text, pos)
         IN  IF n = 0 THEN -1 ELSE MatchItems(text, items, k + 1, pos + n)
    ELSE IF pos < Len(text) /\ Lower(text[pos + 1]) = Lower(items[k])
    THEN MatchItems(text, items, k + 1, pos + 1)
    ELSE -1

MatchAt(text, pattern, pos) ==
    IF pattern.wb /\ ~IsBoundary(text, pos) THEN -1
    ELSE LET e == MatchItems(text, pattern.items, 1, pos)
         IN  IF e >= 0 /\ pattern.wb /\ ~IsBoundary(text, e) THEN -1 ELSE e

\* the matches of one pattern, leftmost first, each search resuming at the end of
\* the match before it
RECURSIVE finditer(_, _, _)
finditer(pattern, text, pos) ==
    IF pos >= Len(text) THEN << >>
    ELSE LET e == MatchAt(text, pattern, pos)
         IN  IF e < 0 THEN finditer(pattern, text, pos + 1)
             ELSE <<[start |-> pos, end |-> e]>> \o finditer(pattern, text, e)

(***************************************************************************)
(* GeneralAI.scan                                                          *)
(***************************************************************************)
Groups == <<"EMOTION", "PRESSURE", "LOGIC">>

\* lines 97-100: the candidates, in the order the three loops append them
RECURSIVE PatternMatches(_, _, _)
PatternMatches(data, text, j) ==
    IF j > Len(data.patterns) THEN << >>
    ELSE LET found == finditer(data.patterns[j], text, 0)
         IN  [i \in 1..Len(found) |->
                 [start |-> found[i].start, end |-> found[i].end,
                  text |-> SubSeq(text, found[i].start + 1, found[i].end),
                  label |-> data.label, category |-> data.category, color |-> data.color]]
             \o PatternMatches(data, text, j + 1)

RECURSIVE AllMatches(_, _)
AllMatches(text, l) ==
    IF l > Len(INTELLIGENCE) THEN << >>
    ELSE PatternMatches(INTELLIGENCE[l], text, 1) \o AllMatches(text, l + 1)

\* the key without its second component
KeyLessStartOnly(a, b) == a.start < b.start

\* line 102, the sort key (start, -(end - start)), compared as Python compares tuples
KeyLess(a, b) ==
    \/ a.start < b.start
    \/ a.start = b.start /\ -(a.end - a.start) < -(b.end - b.start)

\* list.sort is stable: m goes after every element whose key is not greater
RECURSIVE InsertByKey(_, _)
InsertByKey(sorted, m) ==
    IF sorted = << >> THEN <<m>>
    ELSE IF KeyLess(m, Head(sorted)) THEN <<m>> \o sorted
    ELSE <<Head(sorted)>> \o InsertByKey(Tail(sorted), m)

RECURSIVE SortMatches(_, _)
SortMatches(ms, n) ==
    IF n = 0 THEN << >> ELSE InsertByKey(SortMatches(ms, n - 1), ms[n])

\* the test made on the candidate's end instead of its start
AcceptsByEnd(m, last_end) == m.end >= last_end

\* line 106
Accepts(m, last_end) == m.start >= last_end

\* lines 107-110
Accept(acc, m) ==
    [final_matches |-> Append(acc.final_matches, m),
     last_end |-> m.end,
     breakdown |-> [acc.breakdown EXCEPT ![m.category] = @ + 1],
     triggers_found |-> Append(acc.triggers_found, m.label)]

\* the count of line 109 made for a candidate the test of line 106 turns down
SkipButCount(acc, m) == [acc EXCEPT !.breakdown[m.category] = @ + 1]

\* line 106 false: the loop body does nothing
Skip(acc, m) == acc

\* lines 105-110: the sweep from matches[i] on
RECURSIVE Sweep(_, _, _)
Sweep(matches, i, acc) ==
    IF i > Len(matches) THEN acc
    ELSE IF Accepts(matches[i], acc.last_end)
    THEN Sweep(matches, i + 1, Accept(acc, matches[i]))
    ELSE Sweep(matches, i + 1, Skip(acc, matches[i]))

\* line 94 and lines 103-104
SweepStart ==
    [final_matches |-> << >>, last_end |-> 0,
     breakdown |-> [g \in {"EMOTION", "PRESSURE", "LOGIC"} |-> 0],
     triggers_found |-> << >>]

\* line 112: sort(key = start, reverse = True), stable
RECURSIVE InsertByStartDesc(_, _)
InsertByStartDesc(sorted, m) ==
    IF sorted = << >> THEN <<m>>
    ELSE IF m.start > Head(sorted).start THEN <<m>> \o sorted
    ELSE <<Head(sorted)>> \o InsertByStartDesc(Tail(sorted), m)

RECURSIVE SortByStartDesc(_, _)
SortByStartDesc(ms, n) ==
    IF n = 0 THEN << >> ELSE InsertByStartDesc(SortByStartDesc(ms, n - 1), ms[n])

\* the list left in the order of the sweep
RenderOrderAscending(accepted) == accepted

RenderOrder(accepted) == SortByStartDesc(accepted, Len(accepted))

Abs(n) == IF n < 0 THEN -n ELSE n

Min(a, b) == IF a <= b THEN a ELSE b

\* s[lo:hi] for 0 <= lo, hi: Python cuts both at len(s)
Slice(s, lo, hi) == SubSeq(s, Min(lo, Len(s)) + 1, Min(hi, Len(s)))

\* line 114: the two markers of a badge, each one element of the rendered text
OpenTag(color, label) ==
    "<span style=\"background-color: " \o color \o "33; border-bottom: 2px solid " \o color
    \o "; border-radius: 4px; padding: 0 2px; font-weight: bold;\" title=\"" \o label \o "\">"

CloseTag == "</span>"

Badge(t, m) ==
    <<OpenTag(m.color, m.label)>> \o Slice(t, m.start, m.end) \o <<CloseTag>>

\* line 115: highlighted[:start] + badge + highlighted[end:]
Splice(highlighted, m, badge) ==
    Slice(highlighted, 0, m.start) \o badge \o Slice(highlighted, m.end, Len(highlighted))

\* lines 113-115
RECURSIVE Render(_, _, _, _)
Render(t, ordered, i, highlighted) ==
    IF i > Len(ordered) THEN highlighted
    ELSE Render(t, ordered, i + 1, Splice(highlighted, ordered[i], Badge(t, ordered[i])))

\* line 119: abs(vader['compound']) * 100 > 50, compound in units of 0.0001
PolarityTriggered(c) == Abs(c) * 100 > 50 * 10000

\* line 120 without min
ScoreOfUnclamped(breakdown, c) ==
    (breakdown["EMOTION"] * 10) + (breakdown["PRESSURE"] * 15) + (breakdown["LOGIC"] * 20)
    + (IF PolarityTriggered(c) THEN 15 ELSE 0)

\* line 120 wrapping past 100 instead of saturating
ScoreOfWrapping(breakdown, c) == ScoreOfUnclamped(breakdown, c) % 101

\* lines 117-120
ScoreOf(breakdown, c) ==
    LET score == (breakdown["EMOTION"] * 10) + (breakdown["PRESSURE"] * 15)
                 + (breakdown["LOGIC"] * 20)
        bonus == IF PolarityTriggered(c) THEN 15 ELSE 0
    IN  Min(score + bonus, 100)

\* line 76: max(breakdown, key=breakdown.get) keeps the first key, in the dict's
\* order (line 94), whose count no later key exceeds
RECURSIVE MaxFrom(_, _, _)
MaxFrom(breakdown, i, best) ==
    IF i > Len(Groups) THEN best
    ELSE IF breakdown[Groups[i]] > breakdown[best]
    THEN MaxFrom(breakdown, i + 1, Groups[i])
    ELSE MaxFrom(breakdown, i + 1, best)

\* max taking the last of the keys that share the highest count
RECURSIVE MaxFromLast(_, _, _)
MaxFromLast(breakdown, i, best) ==
    IF i > Len(Groups) THEN best
    ELSE IF breakdown[Groups[i]] >= breakdown[best]
    THEN MaxFromLast(breakdown, i + 1, Groups[i])
    ELSE MaxFromLast(breakdown, i + 1, best)

highest_cat_last(breakdown) == MaxFromLast(breakdown, 2, Groups[1])

highest_cat(breakdown) == MaxFrom(breakdown, 2, Groups[1])

\* the verdict texts of lines 74-89, without their leading emoji
SafeVerdict ==
    "**Safe to Read:** This text appears balanced, neutral, and objective. "
    \o "It relies on facts rather than emotional manipulation."

Warning(cat) ==
    CASE cat = "EMOTION" ->
           "**Emotional Manipulation Detected:** This text is trying to bypass your logic "
           \o "by triggering intense feelings like Anger or Fear. "
      [] cat = "PRESSURE" ->
           "**High Pressure Tactics:** The author is creating artificial urgency or relying "
           \o "on vague 'experts' to force you into a quick decision. "
      [] cat = "LOGIC" ->
           "**Logical Fallacies:** This argument is structurally flawed. It uses 'Us vs. "
           \o "Them' tribalism or 'Sunk Cost' traps instead of valid reasoning. "
      [] OTHER -> ""

Critical == "**Proceed with extreme caution.** The manipulation density is critical."

Skeptical == "Be skeptical of the framing used here."

\* line 73 with the safe band ending at 10
generate_verdict_low_bar(breakdown, score) ==
    IF score < 10 THEN SafeVerdict
    ELSE LET verdict == Warning(highest_cat(breakdown))
         IN  IF score > 70 THEN verdict \o Critical
             ELSE IF score > 40 THEN verdict \o Skeptical
             ELSE verdict

\* lines 72-91
generate_verdict(breakdown, score) ==
    IF score < 20 THEN SafeVerdict
    ELSE LET verdict == Warning(highest_cat(breakdown))
         IN  IF score > 70 THEN verdict \o Critical
             ELSE IF score > 40 THEN verdict \o Skeptical
             ELSE verdict

\* line 94
NewResults(t) ==
    [score |-> 0, breakdown |-> SweepStart.breakdown, triggers_found |-> << >>,
     highlighted_text |-> t]

(***************************************************************************)
(* State.  text, compound: the argument of the latest scan and what vader  *)
(* answered for it; matches, final_matches, results: scan's locals; pc:    *)
(* where that call is.  session_state: streamlit's; scan_result holds at   *)
(* most one result.  ui: what the latest run of the Input tab did.         *)
(***************************************************************************)
VARIABLES text, compound, matches, final_matches, results, pc, session_state, ui

scanVars == <<text, compound, matches, final_matches, results, pc>>

vars == <<text, compound, matches, final_matches, results, pc, session_state, ui>>

NoRun == [source |-> "none", extraction |-> "none", error_shown |-> FALSE, scanned |-> FALSE]

EmptySession == [scan_result |-> << >>, has_run |-> FALSE]

\* lines 95-123 for the argument t: the locals, then what vader answers on line 118.
\* final_matches is kept as the sweep leaves it (line 110), before line 112
\* reorders the list for rendering.
scan(t) ==
    \E found \in {AllMatches(t, 1)} :
    \E sorted \in {SortMatches(found, Len(found))} :
    \E swept \in {Sweep(sorted, 1, SweepStart)} :
    \E highlighted \in {Render(t, RenderOrder(swept.final_matches), 1, t)} :
    \E c \in CompoundValues :
    \E score \in {ScoreOf(swept.breakdown, c)} :
        /\ text' = t
        /\ compound' = c
        /\ matches' = sorted
        /\ final_matches' = swept.final_matches
        /\ results' = [score |-> score,
                       breakdown |-> swept.breakdown,
                       triggers_found |-> swept.triggers_found,
                       highlighted_text |-> highlighted,
                       verdict |-> generate_verdict(swept.breakdown, score)]
        /\ pc' = "returned"

\* scan has been called with a text and has reached line 95; vader has not been asked
Init ==
    /\ text \in Texts
    /\ compound = 0
    /\ matches = << >>
    /\ final_matches = << >>
    /\ results = NewResults(text)
    /\ pc = "called"
    /\ session_state = EmptySession
    /\ ui = NoRun

\* the call runs to its return
Scan ==
    /\ pc = "called"
    /\ scan(text)
    /\ UNCHANGED <<session_state, ui>>

Next == Scan

Spec == Init /\ [][Next]_vars

Returned == pc = "returned"

(***************************************************************************)
(* Properties of scan, checked under Spec.                                 *)
(***************************************************************************)
Weighted(b) == 10 * b["EMOTION"] + 15 * b["PRESSURE"] + 20 * b["LOGIC"]

SpanLen(m) == m.end - m.start

Accepted == {final_matches[k] : k \in 1..Len(final_matches)}

\* offset s lies inside a match accepted from an earlier start
InsideAccepted(s) == \E a \in Accepted : a.start < s /\ s < a.end

Markers ==
    {OpenTag(INTELLIGENCE[l].color, INTELLIGENCE[l].label) : l \in 1..Len(INTELLIGENCE)}
    \cup {CloseTag}

StripMarkers(h) == SelectSeq(h, LAMBDA e : e \notin Markers)

\* t written once from left to right: the text between accepted matches as it is,
\* each accepted match between its two markers
RECURSIVE Annotated(_, _, _, _)
Annotated(t, accepted, k, pos) ==
    IF k > Len(accepted) THEN SubSeq(t, pos + 1, Len(t))
    ELSE SubSeq(t, pos + 1, accepted[k].start)
         \o <<OpenTag(accepted[k].color, accepted[k].label)>>
         \o SubSeq(t, accepted[k].start + 1, accepted[k].end)
         \o <<CloseTag>>
         \o Annotated(t, accepted, k + 1, accepted[k].end)

CountOf(g) == Cardinality({k \in 1..Len(final_matches) : final_matches[k].category = g})

\* the verdict names group g
Named(g) ==
    results.verdict \in {Warning(g), Warning(g) \o Skeptical, Warning(g) \o Critical}

\* C1: the score scan returns is an integer from 0 to 100, whatever the counts per
\* group and whether or not the polarity bonus applies.
C1_ScoreInRange == Returned => results.score \in 0..100

\* the weighted counts alone exceed 100 and the score is 100
C1_Witness ==
    /\ Returned
    /\ ~PolarityTriggered(compound)
    /\ Weighted(results.breakdown) > 100
    /\ results.score = 100

\* C2: the matches the sweep accepts, in the order it accepts them, do not overlap
\* and are ordered by start: of any two, the earlier ends at or before the start of
\* the later.
C2_NonOverlapping ==
    \A i, j \in 1..Len(final_matches) :
        i < j => /\ final_matches[i].start <= final_matches[j].start
                 /\ final_matches[i].end <= final_matches[j].start

\* two matches accepted, and a candidate turned down that starts inside an accepted
\* match and ends past it
C2_Witness ==
    /\ Returned
    /\ Len(final_matches) >= 2
    /\ \E i \in 1..Len(matches) : \E a \in Accepted :
          /\ matches[i] \notin Accepted
          /\ a.start < matches[i].start
          /\ matches[i].start < a.end
          /\ a.end < matches[i].end

\* C3: when several candidates start at one offset and the offset is not inside a
\* match already accepted, the sweep accepts a longest of them and none that is
\* shorter.
C3_LongestAtStart ==
    Returned =>
        \A i \in 1..Len(matches) :
            LET s       == matches[i].start
                same    == {j \in 1..Len(matches) : matches[j].start = s}
                longest == CHOOSE n \in {SpanLen(matches[j]) : j \in same} :
                               \A j \in same : SpanLen(matches[j]) <= n
            IN  (Cardinality(same) >= 2 /\ ~InsideAccepted(s)) =>
                    /\ \E a \in Accepted : a.start = s /\ SpanLen(a) = longest
                    /\ \A a \in Accepted : a.start = s => SpanLen(a) = longest

\* a longer and a shorter candidate start at one offset outside every accepted match:
\* the longer is accepted and the shorter is not
C3_Witness ==
    /\ Returned
    /\ \E i, j \in 1..Len(matches) :
          /\ matches[i].start = matches[j].start
          /\ SpanLen(matches[i]) > SpanLen(matches[j])
          /\ ~InsideAccepted(matches[i].start)
          /\ matches[i] \in Accepted
          /\ matches[j] \notin Accepted

\* C4: the highlighted text, built by splicing the badges from the last match to the
\* first, is the text again once every marker is taken out; each badge wraps exactly
\* text[start:end] of its match and every other character stays in its place.
C4_RenderRoundTrip ==
    Returned =>
        /\ StripMarkers(results.highlighted_text) = text
        /\ results.highlighted_text = Annotated(text, final_matches, 1, 0)

\* three badges, the first of them not at the start of the text
C4_Witness ==
    /\ Returned
    /\ Len(final_matches) >= 3
    /\ final_matches[1].start > 0
    /\ Len(results.highlighted_text) = Len(text) + 2 * Len(final_matches)
    /\ StripMarkers(results.highlighted_text) = text

\* C5: after scan, breakdown[group] is the number of accepted matches of that group
\* for each group; a candidate the sweep rejects adds nothing to breakdown, to
\* triggers_found or to the score.
C5_BreakdownCountsAccepted ==
    Returned =>
        /\ \A g \in {"EMOTION", "PRESSURE", "LOGIC"} : results.breakdown[g] = CountOf(g)
        /\ Len(results.triggers_found) = Len(final_matches)
        /\ \A k \in 1..Len(final_matches) :
              results.triggers_found[k] = final_matches[k].label
        /\ results.score =
              Min(100, 10 * CountOf("EMOTION") + 15 * CountOf("PRESSURE")
                       + 20 * CountOf("LOGIC")
                       + (IF PolarityTriggered(compound) THEN 15 ELSE 0))

\* a candidate is rejected whose group has no accepted match at all
C5_Witness ==
    /\ Returned
    /\ Len(final_matches) >= 1
    /\ \E i \in 1..Len(matches) :
          /\ matches[i] \notin Accepted
          /\ results.breakdown[matches[i].category] = 0

\* C6: the score is min(100, 10*breakdown[EMOTION] + 15*breakdown[PRESSURE]
\* + 20*breakdown[LOGIC] + bonus), bonus being 15 when abs(compound)*100 is over its
\* threshold and 0 otherwise; a sum over 100 gives 100.
C6_ScoreFormula ==
    Returned =>
        LET bonus == IF Abs(compound) * 100 > 500000 THEN 15 ELSE 0
            sum   == Weighted(results.breakdown) + bonus
        IN  results.score = IF sum > 100 THEN 100 ELSE sum

\* the bonus is what takes the sum over 100
C6_Witness ==
    /\ Returned
    /\ PolarityTriggered(compound)
    /\ Weighted(results.breakdown) < 100
    /\ Weighted(results.breakdown) + 15 > 100
    /\ results.score = 100

\* C7: the verdict goes by the band of the score: up to 20 the safe verdict, 21-40 a
\* group's warning alone, 41-70 the warning with the "be skeptical" sentence, over
\* 70 the warning with the "extreme caution" sentence.
C7_VerdictBands ==
    Returned =>
        /\ results.score <= 20 => results.verdict = SafeVerdict
        /\ results.score \in 21..40 =>
              \E i \in 1..Len(Groups) : results.verdict = Warning(Groups[i])
        /\ results.score \in 41..70 =>
              \E i \in 1..Len(Groups) : results.verdict = Warning(Groups[i]) \o Skeptical
        /\ results.score > 70 =>
              \E i \in 1..Len(Groups) : results.verdict = Warning(Groups[i]) \o Critical

\* C8: a verdict that is not the safe one names the group with the highest count in
\* breakdown and, of the groups that share the highest count, the one declared
\* first (EMOTION, PRESSURE, LOGIC).
C8_DominantGroupFirstDeclared ==
    (Returned /\ results.verdict # SafeVerdict) =>
        \E i \in 1..Len(Groups) :
            /\ Named(Groups[i])
            /\ \A j \in 1..Len(Groups) :
                  results.breakdown[Groups[j]] <= results.breakdown[Groups[i]]
            /\ \A j \in 1..(i - 1) :
                  results.breakdown[Groups[j]] < results.breakdown[Groups[i]]

\* PRESSURE and LOGIC share the highest count and PRESSURE is named
C8_Witness ==
    /\ Returned
    /\ results.verdict # SafeVerdict
    /\ results.breakdown["PRESSURE"] = results.breakdown["LOGIC"]
    /\ results.breakdown["PRESSURE"] > results.breakdown["EMOTION"]
    /\ Named("PRESSURE")

\* C10: a verdict that is not the safe one is a text that is not empty and names a
\* group whose count is at least 1; with no accepted match the verdict is the safe
\* one, with the polarity bonus too.
C10_WarningNamesAHitGroup ==
    Returned =>
        /\ results.verdict # SafeVerdict =>
              /\ results.verdict # ""
              /\ \E i \in 1..Len(Groups) :
                    Named(Groups[i]) /\ results.breakdown[Groups[i]] >= 1
        /\ final_matches = << >> => results.verdict = SafeVerdict

\* no match, the bonus applies, and the verdict is the safe one
C10_Witness ==
    /\ Returned
    /\ final_matches = << >>
    /\ PolarityTriggered(compound)
    /\ results.score = 15
    /\ results.verdict = SafeVerdict

(***************************************************************************)
(* The Input tab, lines 133-164: one action per run of the script.         *)
(***************************************************************************)
\* str.strip()
RECURSIVE LStrip(_)
LStrip(s) == IF s # << >> /\ Head(s) \in Whitespace THEN LStrip(Tail(s)) ELSE s

RECURSIVE RStrip(_)
RStrip(s) ==
    IF s # << >> /\ s[Len(s)] \in Whitespace THEN RStrip(SubSeq(s, 1, Len(s) - 1)) ELSE s

Strip(s) == RStrip(LStrip(s))

\* str.startswith
StartsWith(s, prefix) == Len(s) >= Len(prefix) /\ SubSeq(s, 1, Len(prefix)) = prefix

\* sub in s
Contains(s, sub) ==
    \E i \in 0..(Len(s) - Len(sub)) : SubSeq(s, i + 1, i + Len(sub)) = sub

Http == <<"h", "t", "t", "p">>

Www == <<"w", "w", "w">>

HttpsPrefix == <<"h", "t", "t", "p", "s", ":", "/", "/">>

ErrorWord == <<"E", "r", "r", "o", "r">>

\* line 60
ErrUnreachable ==
    <<"E", "r", "r", "o", "r", ":", " ", "C", "o", "u", "l", "d", " ", "n", "o", "t", " ", "r", "e",
      "a", "c", "h", " ", "t", "h", "e", " ", "w", "e", "b", "s", "i", "t", "e", ".", " ", "I", "t",
      " ", "m", "i", "g", "h", "t", " ", "b", "e", " ", "b", "l", "o", "c", "k", "i", "n", "g", " ",
      "b", "o", "t", "s", ".">>

\* line 66
ErrNoArticle ==
    <<"E", "r", "r", "o", "r", ":", " ", "C", "o", "u", "l", "d", " ", "n", "o", "t", " ", "f", "i",
      "n", "d", " ", "t", "h", "e", " ", "m", "a", "i", "n", " ", "a", "r", "t", "i", "c", "l", "e",
      " ", "t", "e", "x", "t", ".">>

\* line 70
ErrScraping ==
    <<"E", "r", "r", "o", "r", " ", "s", "c", "r", "a", "p", "i", "n", "g", " ", "U", "R", "L", ":",
      " ">>

\* line 52
ErrReadingPdf ==
    <<"E", "r", "r", "o", "r", " ", "r", "e", "a", "d", "i", "n", "g", " ", "P", "D", "F", ":", " ">>

\* str(e) of an exception a collaborator raises
ExceptionTexts == {
    <<"t", "i", "m", "e", "d", " ", "o", "u", "t">>,
    <<"E", "O", "F", " ", "m", "a", "r", "k", "e", "r", " ", "n", "o", "t", " ", "f", "o", "u", "n",
      "d">> }

\* an article that speaks of an error
ArticleOnly == {
    <<"E", "r", "r", "o", "r", " ", "r", "a", "t", "e", "s", " ", "f", "e", "l", "l", ".", " ">> }

PastedTexts == TextsOf(MaxPasted)

Urls == {
    <<"h", "t", "t", "p", ":", "/", "/", "a", ".", "i", "o">>,
    <<" ", "w", "w", "w", ".", "b", ".", "i", "o", "\n">> }

\* what the text area may hold
UserInputs == PastedTexts \cup Urls

\* what trafilatura does for a URL: fetch_url returns None, extract returns None,
\* either raises, or extract returns the article
WebAnswers ==
    {[kind |-> k, body |-> << >>] : k \in {"fetch_none", "extract_none"}}
    \cup {[kind |-> "raises", body |-> e] : e \in ExceptionTexts}
    \cup {[kind |-> "article", body |-> t] : t \in PastedTexts \cup ArticleOnly}

\* what pypdf does for an upload: PdfReader or extract_text raises, or every page
\* gives its text
RECURSIVE PagesOf(_)
PagesOf(n) ==
    IF n = 0 THEN {<< >>}
    ELSE LET fewer == PagesOf(n - 1)
         IN  fewer \cup {Append(ps, f) : ps \in fewer, f \in Fragments}

PdfAnswers ==
    {[kind |-> "raises", body |-> e, pages |-> << >>] : e \in ExceptionTexts}
    \cup {[kind |-> "pages", body |-> << >>, pages |-> ps] : ps \in PagesOf(MaxPasted)}

\* lines 47-50
RECURSIVE JoinPages(_, _)
JoinPages(pages, i) ==
    IF i > Len(pages) THEN << >> ELSE pages[i] \o <<"\n">> \o JoinPages(pages, i + 1)

\* lines 44-52
extract_from_pdf(uploaded_file) ==
    IF uploaded_file.kind = "raises" THEN ErrReadingPdf \o uploaded_file.body
    ELSE JoinPages(uploaded_file.pages, 1)

\* lines 54-70
extract_from_url(url, web) ==
    CASE web.kind = "fetch_none"   -> ErrUnreachable
      [] web.kind = "extract_none" -> ErrNoArticle
      [] web.kind = "raises"       -> ErrScraping \o web.body
      [] OTHER                     -> web.body

\* line 142
LooksLikeUrl(user_input) ==
    StartsWith(Strip(user_input), Http) \/ StartsWith(Strip(user_input), Www)

\* lines 144-145
TargetUrl(user_input) ==
    IF StartsWith(Strip(user_input), Www) THEN HttpsPrefix \o Strip(user_input)
    ELSE Strip(user_input)

\* lines 161-164, after a run that did `did` and left final_text_to_scan
ScanIfLong(final_text_to_scan, did) ==
    IF final_text_to_scan # << >> /\ Len(final_text_to_scan) > 10
    THEN /\ scan(final_text_to_scan)
         /\ session_state' = [scan_result |-> <<results'>>, has_run |-> TRUE]
         /\ ui' = [did EXCEPT !.scanned = TRUE]
    ELSE /\ UNCHANGED <<scanVars, session_state>>
         /\ ui' = [did EXCEPT !.scanned = FALSE]

\* no scan has been called; the session is new
InitUI ==
    /\ text = << >>
    /\ compound = 0
    /\ matches = << >>
    /\ final_matches = << >>
    /\ results = NewResults(<< >>)
    /\ pc = "idle"
    /\ session_state = EmptySession
    /\ ui = NoRun

\* a run in which no button is pressed: final_text_to_scan stays "" (line 136)
Rerun ==
    /\ ScanIfLong(<< >>, NoRun)

\* lines 138-151 with the button pressed and a pasted text (line 151)
ProcessText ==
    \E user_input \in UserInputs :
        /\ ~LooksLikeUrl(user_input)
        /\ ScanIfLong(user_input, [NoRun EXCEPT !.source = "text"])

\* lines 138-150 with the button pressed and a link
ProcessUrl ==
    \E user_input \in UserInputs, web \in WebAnswers :
        /\ LooksLikeUrl(user_input)
        /\ \E scraped_text \in {extract_from_url(TargetUrl(user_input), web)} :
           LET did == [NoRun EXCEPT
                          !.source = "url",
                          !.extraction = IF web.kind = "article" THEN "succeeded" ELSE "failed"]
           IN  IF Contains(scraped_text, ErrorWord)
               THEN ScanIfLong(<< >>, [did EXCEPT !.error_shown = TRUE])
               ELSE ScanIfLong(scraped_text, did)

\* lines 152-159 with a file chosen and the button pressed
ProcessPdf ==
    \E uploaded_file \in PdfAnswers :
    \E extracted \in {extract_from_pdf(uploaded_file)} :
        /\ ScanIfLong(extracted,
                      [NoRun EXCEPT
                          !.source = "pdf",
                          !.extraction = IF uploaded_file.kind = "pages" THEN "succeeded"
                                         ELSE "failed"])

NextUI == Rerun \/ ProcessText \/ ProcessUrl \/ ProcessPdf

SpecUI == InitUI /\ [][NextUI]_vars

(***************************************************************************)
(* Property of the Input tab, checked under SpecUI.                        *)
(***************************************************************************)
\* C9: a failed extraction is told apart from extracted text: after a URL or PDF
\* extraction that failed no scan is run (scan_result and has_run stay as they
\* were), and an extraction that succeeded is never shown as an error.
C9_FailureToldApart ==
    /\ ui.extraction = "failed" => ~ui.scanned
    /\ ui.extraction = "succeeded" => ~ui.error_shown
====
